---------------------------- MODULE Spec2Model ----------------------------
(***************************************************************************)
(* Model of homework.py: a polling worker that asks the homework-review    *)
(* API for status changes since a checkpoint (timestamp), renders the      *)
(* first record of the answer and sends the text to a Telegram chat.       *)
(*                                                                         *)
(* The state is main()'s frame (timestamp, response_from_api, message,     *)
(* the exception being handled, the position in the loop body) together    *)
(* with what the environment observes of one cycle: the from_date of the   *)
(* request, the calls that returned or raised, and the sends attempted.    *)
(*                                                                         *)
(* String literals of the program are Cyrillic; the module language        *)
(* accepts ASCII only, so each literal is written in Latin transliteration *)
(* (the original is quoted in the comment above the definition).           *)
(***************************************************************************)
EXTENDS Integers, Sequences, FiniteSets, TLC

VARIABLES
    env,                \* which of the three secrets are set (not None)
    now,                \* the client's clock at startup, time.time()
    pc,                 \* position in main()
    timestamp,          \* main's checkpoint
    response_from_api,  \* main's local: the last decoded answer
    message,            \* main's local: the text last rendered
    error,              \* the exception bound in "except Exception as error"
    propagating,        \* an exception is leaving main() through "finally"
    from_date,          \* params['from_date'] of this cycle's request
    steps,              \* calls of this cycle, in order ("raise:f" if f raised)
    sent,               \* send_message calls of this cycle: text, delivered
    http_reply,         \* what this cycle's request met (NoReply: none yet)
    last_completed,     \* current_date of the last cycle that ended outside
                        \* the handler; the startup time before any did
    requested,          \* an HTTP request has been issued in this run
    messaged            \* bot.send_message has been called in this run

vars == <<env, now, pc, timestamp, response_from_api, message, error,
          propagating, from_date, steps, sent, http_reply, last_completed,
          requested, messaged>>

---------------------------------------------------------------------------
(* Bounds of the environment.                                              *)

\* Server and client clock values are 0..MaxDate.
MaxDate == 2
\* The homeworks list of an answer holds at most MaxHomeworks records.
MaxHomeworks == 2

---------------------------------------------------------------------------
(* Decoded JSON values, as response.json() returns them.                   *)

JNull == [t |-> "null"]
JInt(n) == [t |-> "int", n |-> n]
JStr(s) == [t |-> "str", s |-> s]
JList(l) == [t |-> "list", l |-> l]
JDict(d) == [t |-> "dict", d |-> d]

EmptyDict == [k \in {} |-> JNull]

\* key in mapping, for a dict.
HasKey(v, k) == v.t = "dict" /\ k \in DOMAIN v.d

\* bool(v) as the if statement of main applies it.
Truthy(v) ==
    CASE v.t = "null" -> FALSE
      [] v.t = "int"  -> v.n # 0
      [] v.t = "str"  -> v.s # ""
      [] v.t = "list" -> v.l # <<>>
      [] v.t = "dict" -> DOMAIN v.d # {}

\* hash(v) succeeds: lists and dicts are unhashable.
Hashable(v) == v.t \notin {"list", "dict"}

\* format(v) inside an f-string, for the values that reach one.
Format(v) ==
    CASE v.t = "null" -> "None"
      [] v.t = "int"  -> ToString(v.n)
      [] v.t = "str"  -> v.s
      [] OTHER        -> "[]"

\* A call either returns a value or raises an exception with a message.
Ret(v) == [exc |-> "none", val |-> v]
Raise(kind, msg) == [exc |-> kind, msg |-> msg]
NoError == [exc |-> "none", msg |-> ""]

StartsWith(s, p) == Len(s) >= Len(p) /\ SubSeq(s, 1, Len(p)) = p


---------------------------------------------------------------------------
(* Constants imported from the constants module.                           *)

\* HOMEWORK_VERDICTS: status code -> verdict.  The entry for 'approved' is
\* 'Работа проверена: ревьюеру всё понравилось. Ура!'.
HOMEWORK_VERDICTS ==
    [s \in {"approved"} |-> "Rabota proverena: revyueru vsyo ponravilos. Ura!"]

\* FIRST_ELEMENT: the index main() takes from the homeworks list.
FIRST_ELEMENT == 0

\* HTTPStatus.OK
HTTP_OK == 200

\* A faulty variant of Item: the index counts from the end of the list.
Item_from_end(l, i) == l[Len(l) - i]

\* list[i] with Python's 0-based index.
Item(l, i) == l[i + 1]

---------------------------------------------------------------------------
(* The environment: what the API and Telegram may answer.                  *)

HomeworkNames == {"X", "Y"}

\* Values under 'status': a documented code, an undocumented one, and a
\* JSON array (a value that cannot be hashed).
StatusValues == {JStr("approved"), JStr("unknown"), JList(<<>>)}

\* A record with the two documented keys.
Homework(name, status) ==
    JDict(("homework_name" :> JStr(name)) @@ ("status" :> status))

\* First records of the homeworks list: every combination of the two
\* documented keys, and one element that is not a mapping at all.
Homeworks ==
    {JDict(EmptyDict), JDict("homework_name" :> JStr("X")),
     JDict("status" :> JStr("approved")), JInt(7)}
    \cup {Homework(n, s) : n \in HomeworkNames, s \in StatusValues}

\* Records that follow the first one: a well-formed one and a broken one.
LaterHomeworks == {Homework("Y", JStr("approved")), JDict(EmptyDict)}

HomeworkLists ==
    {<<>>} \cup
    {<<h>> \o t : h \in Homeworks,
                  t \in UNION {[1..n -> LaterHomeworks] : n \in 0..MaxHomeworks - 1}}

\* Values under 'homeworks' that are not lists.
NonLists == {JNull, JDict(EmptyDict)}

\* Values under 'current_date': unix times, and a value that is no integer.
CurrentDateValues == {JInt(n) : n \in 0..MaxDate} \cup {JStr("soon")}

\* Decoded bodies of a 200 answer: bodies that are not mappings, mappings
\* with one or both keys missing, mappings whose 'homeworks' is not a list,
\* and mappings with a list and a current_date.
Bodies ==
    {JList(<<>>), JNull, JDict(EmptyDict)}
    \cup {JDict("homeworks" :> JList(l)) : l \in {<<>>, <<JDict(EmptyDict)>>}}
    \cup {JDict("current_date" :> c) : c \in CurrentDateValues}
    \cup {JDict(("homeworks" :> h) @@ ("current_date" :> c)) :
            h \in NonLists, c \in CurrentDateValues}
    \cup {JDict(("homeworks" :> JList(l)) @@ ("current_date" :> c)) :
            l \in HomeworkLists, c \in CurrentDateValues}

StatusCodes == {HTTP_OK, 404}

\* What requests.get meets: no answer at all (the transport failed), an
\* answer with a status code other than 200, a 200 answer whose body is
\* not JSON, a 200 answer with a decoded body.
HttpReplies ==
    {[arrived |-> FALSE, status_code |-> 0, decodable |-> FALSE, body |-> JNull]}
    \cup {[arrived |-> TRUE, status_code |-> c, decodable |-> FALSE,
           body |-> JNull] : c \in StatusCodes}
    \cup {[arrived |-> TRUE, status_code |-> HTTP_OK, decodable |-> TRUE,
           body |-> b] : b \in Bodies}

\* One answer of each kind: what get_api_answer, check_response and
\* parse_status tell apart, with the oldest and the newest current_date.
SampleLists ==
    {<<>>, <<JInt(7)>>, <<JDict(EmptyDict)>>,
     <<JDict("status" :> JStr("approved"))>>,
     <<Homework("X", JStr("approved")), JDict(EmptyDict)>>,
     <<Homework("X", JStr("unknown"))>>,
     <<Homework("Y", JList(<<>>))>>}

SampleReplies ==
    {r \in HttpReplies :
        \/ ~r.decodable
        \/ r.body \in {JNull, JDict("homeworks" :> JList(<<>>)),
                        JDict("current_date" :> JInt(0)),
                        JDict(("homeworks" :> JNull) @@ ("current_date" :> JInt(0)))}
        \/ \E l \in SampleLists, n \in {0, MaxDate} :
              r.body = JDict(("homeworks" :> JList(l)) @@ ("current_date" :> JInt(n)))}

\* No request has been made in this cycle.
NoReply == [arrived |-> FALSE, status_code |-> -1, decodable |-> FALSE,
            body |-> JNull]

\* What bot.send_message meets: delivery, or a telegram.error.TelegramError.
Deliveries == {"delivered", "TelegramError"}

\* The three secrets, each set or None.
TokenNames == {"PRACTICUM_TOKEN", "TELEGRAM_TOKEN", "TELEGRAM_CHAT_ID"}
Environments == [TokenNames -> BOOLEAN]

---------------------------------------------------------------------------
(* The functions of homework.py.                                           *)

\* A faulty variant of check_tokens: TELEGRAM_CHAT_ID is left out of the list checked.
check_tokens_without_chat_id(e) ==
    IF \E var \in {"PRACTICUM_TOKEN", "TELEGRAM_TOKEN"} : ~e[var]
    THEN Raise("NoEnvironmentVariables", "")
    ELSE Ret(JNull)

\* check_tokens(): raises NoEnvironmentVariables when one of the three
\* secrets is None.  (The message lists the missing names found through
\* TOKEN_NAMES; no caller reads it.)
check_tokens(e) ==
    IF \E var \in TokenNames : ~e[var]
    THEN Raise("NoEnvironmentVariables", "")
    ELSE Ret(JNull)

\* send_message(bot, message), undecorated: bot.send_message either
\* delivers or raises telegram.error.TelegramError.
send_message_raw(delivery) ==
    IF delivery = "delivered"
    THEN Ret(JNull)
    ELSE Raise("TelegramError", "")

\* A faulty variant of wrapper: the TelegramError is logged and raised again.
wrapper_reraises(delivery) == send_message_raw(delivery)

\* send_message_logging's wrapper around it: a TelegramError is logged and
\* dropped, the wrapper returns None.
wrapper(delivery) ==
    LET r == send_message_raw(delivery)
    IN  IF r.exc = "TelegramError" THEN Ret(JNull) ELSE r

\* get_api_answer(timestamp).  requests.get raising leads into the handler
\* whose message reads response_from_api.status_code, a local that was never
\* bound: the handler itself raises UnboundLocalError.  A status code other
\* than 200 raises HTTPError ('при запросе сервер вернул код N').  On 200
\* the body is decoded, and response.json() raises when it is not JSON.
get_api_answer(reply) ==
    IF ~reply.arrived
    THEN Raise("UnboundLocalError",
               "cannot access local variable 'response_from_api' "
               \o "where it is not associated with a value")
    ELSE IF reply.status_code # HTTP_OK
    THEN Raise("HTTPError",
               "pri zaprose server vernul kod " \o ToString(reply.status_code))
    ELSE IF ~reply.decodable
    THEN Raise("JSONDecodeError", "Expecting value: line 1 column 1 (char 0)")
    ELSE Ret(reply.body)

\* A faulty variant of check_response: the isinstance(..., list) test is missing.
check_response_any_homeworks(response) ==
    IF /\ response.t = "dict"
       /\ \A key \in {"current_date", "homeworks"} : key \in DOMAIN response.d
    THEN Ret(JNull)
    ELSE Raise("UndocumentedDataType",
               "Klyuch homeworks otsutstvuet v argumente response "
               \o "funktsii check_response.")

\* check_response(response).  The message is
\* 'Ключ homeworks отсутствует в аргументе response функции check_response.'
check_response(response) ==
    IF /\ response.t = "dict"
       /\ \A key \in {"current_date", "homeworks"} : key \in DOMAIN response.d
       /\ response.d["homeworks"].t = "list"
    THEN Ret(JNull)
    ELSE Raise("UndocumentedDataType",
               "Klyuch homeworks otsutstvuet v argumente response "
               \o "funktsii check_response.")

\* "key not in homework" for the values a record may be: a mapping is asked
\* for the key, an integer is not a container (TypeError).
NotIn(key, homework) ==
    IF homework.t = "dict"
    THEN Ret(key \notin DOMAIN homework.d)
    ELSE Raise("TypeError", "argument of type 'int' is not iterable")

\* "status not in HOMEWORK_VERDICTS": the dict hashes the value first.
NotInVerdicts(status) ==
    IF ~Hashable(status)
    THEN Raise("TypeError", "unhashable type: 'list'")
    ELSE Ret(~(status.t = "str" /\ status.s \in DOMAIN HOMEWORK_VERDICTS))

\* A faulty variant of parse_status: 'homework_name' is looked for before 'status'.
parse_status_name_first(homework) ==
    LET no_name == NotIn("homework_name", homework)
    IN  IF no_name.exc # "none" THEN no_name
        ELSE IF no_name.val
        THEN Raise("NoDocumentedKeyInDict",
                   "Klyuch homework_name otsutstvuet v slovare homework "
                   \o "funktsii parse_status.")
        ELSE IF NotIn("status", homework).val
        THEN Raise("NoDocumentedKeyInDict",
                   "Klyuch status otsutstvuet v slovare homework "
                   \o "funktsii parse_status.")
        ELSE
        LET homework_name == homework.d["homework_name"]
            status == homework.d["status"]
            unknown == NotInVerdicts(status)
        IN  IF unknown.exc # "none" THEN unknown
            ELSE IF unknown.val
            THEN Raise("NoDocumentedKeyInDict",
                       "V funktsii parse_status klyuch " \o Format(status)
                       \o " otsutstvuet v slovare HOMEWORK_VERDICTS.")
            ELSE Ret("Izmenilsya status proverki raboty \""
                     \o Format(homework_name) \o "\". "
                     \o HOMEWORK_VERDICTS[status.s])

\* parse_status(homework).  The messages are
\*   'Ключ status отсутствует в словаре homework функции parse_status.'
\*   'Ключ homework_name отсутствует в словаре homework функции parse_status.'
\*   'В функции parse_status ключ S отсутствует в словаре HOMEWORK_VERDICTS.'
\* and the text returned is
\*   'Изменился статус проверки работы "NAME". VERDICT'
parse_status(homework) ==
    LET no_status == NotIn("status", homework)
    IN  IF no_status.exc # "none" THEN no_status
        ELSE IF no_status.val
        THEN Raise("NoDocumentedKeyInDict",
                   "Klyuch status otsutstvuet v slovare homework "
                   \o "funktsii parse_status.")
        ELSE IF NotIn("homework_name", homework).val
        THEN Raise("NoDocumentedKeyInDict",
                   "Klyuch homework_name otsutstvuet v slovare homework "
                   \o "funktsii parse_status.")
        ELSE
        LET homework_name == homework.d["homework_name"]
            status == homework.d["status"]
            unknown == NotInVerdicts(status)
        IN  IF unknown.exc # "none" THEN unknown
            ELSE IF unknown.val
            THEN Raise("NoDocumentedKeyInDict",
                       "V funktsii parse_status klyuch " \o Format(status)
                       \o " otsutstvuet v slovare HOMEWORK_VERDICTS.")
            ELSE
            LET verdict == HOMEWORK_VERDICTS[status.s]
            IN  Ret("Izmenilsya status proverki raboty \""
                    \o Format(homework_name) \o "\". " \o verdict)

\* str(error): a KeyError shows the repr of its argument, every other
\* exception its message.  NoDocumentedKeyInDict is a KeyError.
ExcStr(e) ==
    IF e.exc = "NoDocumentedKeyInDict" THEN "'" \o e.msg \o "'" ELSE e.msg

\* A faulty variant of FailureText: the text is the exception alone.
FailureText_without_prefix(e) == ExcStr(e)

\* The text main() builds in its handler: f'Сбой в работе программы: {error}'
FailureText(e) == "Sboy v rabote programmy: " \o ExcStr(e)

---------------------------------------------------------------------------
(* main().                                                                 *)

Init ==
    /\ env \in Environments
    /\ now \in 0..MaxDate
    /\ pc = "start"
    /\ timestamp = JNull
    /\ response_from_api = JNull
    /\ message = ""
    /\ error = NoError
    /\ propagating = FALSE
    /\ from_date = JNull
    /\ steps = <<>>
    /\ sent = <<>>
    /\ http_reply = NoReply
    /\ last_completed = JNull
    /\ requested = FALSE
    /\ messaged = FALSE

\* check_tokens(); bot = telegram.Bot(...); timestamp = int(time.time()).
\* NoEnvironmentVariables is not caught: the process ends.
Startup ==
    /\ pc = "start"
    /\ LET r == check_tokens(env)
       IN  IF r.exc # "none"
           THEN /\ pc' = "exited"
                /\ error' = r
                /\ UNCHANGED <<timestamp, last_completed>>
           ELSE /\ pc' = "fetch"
                /\ timestamp' = JInt(now)
                /\ last_completed' = JInt(now)
                /\ UNCHANGED error
    /\ UNCHANGED <<env, now, response_from_api, message, propagating,
                   from_date, steps, sent, http_reply, requested, messaged>>

\* A faulty variant of GetApiAnswerFrom: from_date is the client's clock, not
\* the checkpoint.
GetApiAnswerFrom_client_clock(replies) ==
    /\ pc = "fetch"
    /\ \E reply \in replies :
         LET r == get_api_answer(reply)
         IN  /\ from_date' = JInt(now)
             /\ requested' = TRUE
             /\ http_reply' = reply
             /\ IF r.exc = "none"
                THEN /\ response_from_api' = r.val
                     /\ error' = NoError
                     /\ steps' = <<"get_api_answer">>
                     /\ pc' = "check"
                ELSE /\ UNCHANGED response_from_api
                     /\ error' = r
                     /\ steps' = <<"raise:get_api_answer">>
                     /\ pc' = "except"
    /\ UNCHANGED <<env, now, timestamp, message, propagating, sent,
                   last_completed, messaged>>

\* try: response_from_api = get_api_answer(timestamp)
\* with the API's answer drawn from replies.
GetApiAnswerFrom(replies) ==
    /\ pc = "fetch"
    /\ \E reply \in replies :
         LET r == get_api_answer(reply)
         IN  /\ from_date' = timestamp
             /\ requested' = TRUE
             /\ http_reply' = reply
             /\ IF r.exc = "none"
                THEN /\ response_from_api' = r.val
                     /\ error' = NoError
                     /\ steps' = <<"get_api_answer">>
                     /\ pc' = "check"
                ELSE /\ UNCHANGED response_from_api
                     /\ error' = r
                     /\ steps' = <<"raise:get_api_answer">>
                     /\ pc' = "except"
    /\ UNCHANGED <<env, now, timestamp, message, propagating, sent,
                   last_completed, messaged>>

GetApiAnswer == GetApiAnswerFrom(HttpReplies)

\* check_response(response_from_api)
CheckResponse ==
    /\ pc = "check"
    /\ LET r == check_response(response_from_api)
       IN  IF r.exc = "none"
           THEN /\ steps' = Append(steps, "check_response")
                /\ pc' = "homeworks"
                /\ UNCHANGED error
           ELSE /\ steps' = Append(steps, "raise:check_response")
                /\ error' = r
                /\ pc' = "except"
    /\ UNCHANGED <<env, now, timestamp, response_from_api, message,
                   propagating, from_date, sent, http_reply, last_completed,
                   requested, messaged>>

\* A faulty variant of ParseStatus: the "no new status" text is sent to the
\* chat instead of being logged.
ParseStatus_notifying_empty ==
    /\ pc = "homeworks"
    /\ LET homeworks == response_from_api.d["homeworks"]
       IN  IF Truthy(homeworks)
           THEN LET r == parse_status(Item(homeworks.l, FIRST_ELEMENT))
                IN  IF r.exc = "none"
                    THEN /\ message' = r.val
                         /\ steps' = Append(steps, "parse_status")
                         /\ pc' = "send"
                         /\ UNCHANGED error
                    ELSE /\ steps' = Append(steps, "raise:parse_status")
                         /\ error' = r
                         /\ pc' = "except"
                         /\ UNCHANGED message
           ELSE /\ steps' = Append(steps, "no_new_status")
                /\ message' = "Otsutstvuet novyy status domashney raboty."
                /\ pc' = "send"
                /\ UNCHANGED error
    /\ UNCHANGED <<env, now, timestamp, response_from_api, propagating,
                   from_date, sent, http_reply,
                   last_completed, requested, messaged>>

\* if response_from_api['homeworks']:
\*     message = parse_status(response_from_api['homeworks'][FIRST_ELEMENT])
\* else:
\*     logging.debug('Отсутствует новый статус домашней работы.')
ParseStatus ==
    /\ pc = "homeworks"
    /\ LET homeworks == response_from_api.d["homeworks"]
       IN  IF Truthy(homeworks)
           THEN LET r == parse_status(Item(homeworks.l, FIRST_ELEMENT))
                IN  IF r.exc = "none"
                    THEN /\ message' = r.val
                         /\ steps' = Append(steps, "parse_status")
                         /\ pc' = "send"
                         /\ UNCHANGED error
                    ELSE /\ steps' = Append(steps, "raise:parse_status")
                         /\ error' = r
                         /\ pc' = "except"
                         /\ UNCHANGED message
           ELSE /\ steps' = Append(steps, "no_new_status")
                /\ pc' = "advance"
                /\ UNCHANGED <<message, error>>
    /\ UNCHANGED <<env, now, timestamp, response_from_api, propagating,
                   from_date, sent, http_reply,
                   last_completed, requested, messaged>>

\* A faulty variant of SendStatus: a send that Telegram refuses is tried once more.
SendStatus_retrying ==
    /\ pc = "send"
    /\ \E first \in Deliveries, second \in Deliveries :
         LET attempt(d) == [text |-> message, delivered |-> d = "delivered"]
         IN  sent' = IF first = "delivered"
                     THEN Append(sent, attempt(first))
                     ELSE sent \o <<attempt(first), attempt(second)>>
    /\ steps' = Append(steps, "send_message")
    /\ pc' = "advance"
    /\ messaged' = TRUE
    /\ UNCHANGED <<env, now, timestamp, response_from_api, message, error,
                   propagating, from_date, http_reply,
                   last_completed, requested>>

\* send_message(bot, message), in the try block.
SendStatus ==
    /\ pc = "send"
    /\ \E delivery \in Deliveries :
         LET r == wrapper(delivery)
         IN  /\ sent' = Append(sent, [text |-> message,
                                      delivered |-> delivery = "delivered"])
             /\ IF r.exc = "none"
                THEN /\ steps' = Append(steps, "send_message")
                     /\ pc' = "advance"
                     /\ UNCHANGED error
                ELSE /\ steps' = Append(steps, "raise:send_message")
                     /\ error' = r
                     /\ pc' = "except"
    /\ messaged' = TRUE
    /\ UNCHANGED <<env, now, timestamp, response_from_api, message,
                   propagating, from_date, http_reply,
                   last_completed, requested>>

\* A faulty variant of Advance: the assignment sits inside the "if homeworks" branch,
\* after the send.
Advance_only_after_send ==
    /\ pc = "advance"
    /\ timestamp' = IF Truthy(response_from_api.d["homeworks"])
                    THEN response_from_api.d["current_date"]
                    ELSE timestamp
    /\ steps' = Append(steps, "advance")
    /\ pc' = "sleep"
    /\ UNCHANGED <<env, now, response_from_api, message, error, propagating,
                   from_date, sent, http_reply,
                   last_completed, requested, messaged>>

\* A faulty variant of Advance: the checkpoint is taken from the client's clock.
Advance_client_clock ==
    /\ pc = "advance"
    /\ timestamp' = JInt(now)
    /\ steps' = Append(steps, "advance")
    /\ pc' = "sleep"
    /\ UNCHANGED <<env, now, response_from_api, message, error, propagating,
                   from_date, sent, http_reply,
                   last_completed, requested, messaged>>

\* timestamp = response_from_api['current_date']
Advance ==
    /\ pc = "advance"
    /\ timestamp' = response_from_api.d["current_date"]
    /\ steps' = Append(steps, "advance")
    /\ pc' = "sleep"
    /\ UNCHANGED <<env, now, response_from_api, message, error, propagating,
                   from_date, sent, http_reply,
                   last_completed, requested, messaged>>

\* A faulty variant of Except: the handler raises the exception again after the send.
Except_reraising ==
    /\ pc = "except"
    /\ message' = FailureText(error)
    /\ \E delivery \in Deliveries :
         /\ sent' = Append(sent, [text |-> message',
                                  delivered |-> delivery = "delivered"])
         /\ steps' = Append(steps, "raise:except")
         /\ propagating' = TRUE
    /\ messaged' = TRUE
    /\ pc' = "sleep"
    /\ UNCHANGED <<env, now, timestamp, response_from_api, error, from_date,
                   http_reply, last_completed, requested>>

\* A faulty variant of Except: the handler advances the checkpoint when the
\* response had been validated.
Except_advancing ==
    /\ pc = "except"
    /\ message' = FailureText(error)
    /\ \E delivery \in Deliveries :
         /\ sent' = Append(sent, [text |-> message',
                                  delivered |-> delivery = "delivered"])
         /\ steps' = Append(steps, "except")
         /\ propagating' = FALSE
    /\ timestamp' =
           IF \E i \in DOMAIN steps : steps[i] = "check_response"
           THEN response_from_api.d["current_date"]
           ELSE timestamp
    /\ messaged' = TRUE
    /\ pc' = "sleep"
    /\ UNCHANGED <<env, now, response_from_api, error, from_date,
                   http_reply, last_completed, requested>>

\* A faulty variant of Except: the sleep is the last statement of the try
\* block, not a finally block, and the handler goes straight to the next
\* iteration.
Except_without_sleep ==
    /\ pc = "except"
    /\ message' = FailureText(error)
    /\ \E delivery \in Deliveries : messaged' = TRUE
    /\ pc' = "fetch"
    /\ steps' = <<>>
    /\ sent' = <<>>
    /\ from_date' = JNull
    /\ http_reply' = NoReply
    /\ error' = NoError
    /\ UNCHANGED <<env, now, timestamp, response_from_api, propagating,
                   last_completed, requested>>

\* except Exception as error:
\*     message = f'Сбой в работе программы: {error}'
\*     send_message(bot, message)
\* An exception raised in the handler leaves main() after the finally block.
Except ==
    /\ pc = "except"
    /\ message' = FailureText(error)
    /\ \E delivery \in Deliveries :
         LET r == wrapper(delivery)
         IN  /\ sent' = Append(sent, [text |-> message',
                                      delivered |-> delivery = "delivered"])
             /\ steps' = Append(steps, IF r.exc = "none"
                                       THEN "except"
                                       ELSE "raise:except")
             /\ propagating' = (r.exc # "none")
    /\ messaged' = TRUE
    /\ pc' = "sleep"
    /\ UNCHANGED <<env, now, timestamp, response_from_api, error, from_date,
                   http_reply, last_completed, requested>>

\* finally: time.sleep(RETRY_PERIOD); then the next iteration, unless an
\* exception is on its way out of main().  The next iteration starts with
\* nothing observed yet; main's locals keep their values.
Sleep ==
    /\ pc = "sleep"
    /\ pc' = IF propagating THEN "crashed" ELSE "fetch"
    /\ steps' = <<>>
    /\ sent' = <<>>
    /\ from_date' = JNull
    /\ http_reply' = NoReply
    /\ error' = NoError
    /\ last_completed' =
           IF \E i \in DOMAIN steps : steps[i] \in {"except", "raise:except"}
           THEN last_completed
           ELSE response_from_api.d["current_date"]
    /\ UNCHANGED <<env, now, timestamp, response_from_api, message,
                   propagating, requested, messaged>>

Next ==
    \/ Startup
    \/ GetApiAnswer
    \/ CheckResponse
    \/ ParseStatus
    \/ SendStatus
    \/ Advance
    \/ Except
    \/ Sleep

Spec == Init /\ [][Next]_vars

\* The loop against one answer of each kind (SampleReplies), with every
\* call main() makes returning: no step of the loop blocks for ever.
SampleGetApiAnswer == GetApiAnswerFrom(SampleReplies)

SampleNext ==
    \/ Startup
    \/ SampleGetApiAnswer
    \/ CheckResponse
    \/ ParseStatus
    \/ SendStatus
    \/ Advance
    \/ Except
    \/ Sleep

FairSpec == Init /\ [][SampleNext]_vars /\ WF_vars(SampleNext)

---------------------------------------------------------------------------
(* Vocabulary of the properties.                                           *)

\* The call named s returned ("raise:s": raised) in the current cycle.
Did(s) == \E i \in DOMAIN steps : steps[i] = s

\* The cycle is over: the loop body is done and only the sleep is left.
CycleEnd == pc = "sleep"

InLoop == pc \in {"fetch", "check", "homeworks", "send", "advance",
                  "except", "sleep"}

\* The response passed check_response in this cycle.
Validated == Did("check_response")

CurrentDate == response_from_api.d["current_date"]
FirstRecord == response_from_api.d["homeworks"].l[1]
NonEmpty == response_from_api.d["homeworks"].l # <<>>

FailurePrefix == "Sboy v rabote programmy"

Delivered == {i \in DOMAIN sent : sent[i].delivered}

---------------------------------------------------------------------------
(* C1 as stated: at the end of every cycle whose response passed           *)
(* check_response the checkpoint equals that response's current_date,      *)
(* whatever parse_status and send_message did afterwards.                  *)
C1_AdvanceAlways ==
    (CycleEnd /\ Validated) => timestamp = CurrentDate

(* C1 amended: at the end of a cycle whose response passed check_response  *)
(* the checkpoint equals the response's current_date when the list was     *)
(* empty or the first record was rendered (delivered or not); when         *)
(* parse_status raised, the checkpoint is the one the cycle started with.  *)
C1_AdvanceUnlessRenderFails ==
    (CycleEnd /\ Validated) =>
        IF Did("raise:parse_status")
        THEN timestamp = from_date
        ELSE timestamp = CurrentDate

C1_Witness ==
    /\ CycleEnd /\ Validated /\ Did("parse_status")
    /\ Delivered = {} /\ sent # <<>>
    /\ timestamp = CurrentDate /\ timestamp # from_date

---------------------------------------------------------------------------
(* C2 as stated: in a cycle whose first record is rendered the             *)
(* notification is delivered exactly once, and the checkpoint moves only   *)
(* after the delivery.                                                     *)
C2_DeliveredExactlyOnce ==
    /\ (CycleEnd /\ Did("parse_status")) => Cardinality(Delivered) = 1
    /\ (Did("parse_status") /\ pc \in {"send", "advance"}) =>
           timestamp = from_date

(* C2 amended: in a cycle whose first record is rendered exactly one send  *)
(* of the rendered text is attempted (never none, never two), the text is  *)
(* delivered at most once (not at all when Telegram refuses it), and the   *)
(* checkpoint moves only after that attempt.                               *)
C2_AttemptedExactlyOnce ==
    /\ (Did("parse_status") /\ pc = "send") =>
           (sent = <<>> /\ timestamp = from_date)
    /\ (Did("parse_status") /\ pc = "advance") =>
           (Len(sent) = 1 /\ timestamp = from_date)
    /\ (Did("parse_status") /\ CycleEnd) =>
           /\ Len(sent) = 1
           /\ sent[1].text = parse_status(FirstRecord).val
           /\ Cardinality(Delivered) <= 1
           /\ timestamp = CurrentDate

C2_Witness ==
    /\ CycleEnd /\ Did("parse_status")
    /\ Cardinality(Delivered) = 1
    /\ timestamp # from_date

---------------------------------------------------------------------------
(* C3 as stated: the checkpoint never decreases.                           *)
C3_NeverDecreases ==
    [][(timestamp.t = "int" /\ timestamp'.t = "int") =>
           timestamp'.n >= timestamp.n]_vars

(* C3 amended: every value written to timestamp in the loop is the         *)
(* current_date of the response validated in that cycle, taken as the      *)
(* server sent it and not compared with the value it replaces (a lower     *)
(* current_date lowers the checkpoint); nothing else in the loop writes it.*)
C3_ServerValueOnly ==
    [][/\ (pc = "advance" =>
              (Validated /\ timestamp' = CurrentDate))
       /\ (pc \notin {"advance", "start"} => timestamp' = timestamp)]_vars

C3_Witness ==
    /\ CycleEnd /\ Did("advance")
    /\ timestamp.t = "int" /\ from_date.t = "int"
    /\ timestamp.n < from_date.n

---------------------------------------------------------------------------
(* C4: with one of the three secrets absent the process ends at startup:   *)
(* the loop is never entered, no HTTP request is issued and no message is  *)
(* sent.  With all three present the process does not end at startup: it   *)
(* goes on into the loop.                                                  *)
C4_MissingSecretIsFatal ==
    /\ (\E var \in TokenNames : ~env[var]) =>
           /\ pc \in {"start", "exited"}
           /\ ~requested /\ ~messaged
           /\ steps = <<>> /\ sent = <<>>
    /\ (\A var \in TokenNames : env[var]) =>
           /\ pc # "exited"
           /\ (pc # "start" => (InLoop /\ timestamp # JNull))

C4_Witness ==
    /\ pc = "exited"
    /\ env["PRACTICUM_TOKEN"] /\ env["TELEGRAM_TOKEN"]
    /\ ~env["TELEGRAM_CHAT_ID"]
    /\ error.exc = "NoEnvironmentVariables"

---------------------------------------------------------------------------
(* C5: a cycle in which get_api_answer raises (no answer, or a status      *)
(* other than 200), check_response raises or parse_status raises attempts  *)
(* exactly one send, whose text starts with the failure prefix and is not  *)
(* a status-change text, and goes on to the sleep and the next iteration.  *)
C5_OneFailureNotification ==
    (CycleEnd /\ (\/ Did("raise:get_api_answer")
                  \/ Did("raise:check_response")
                  \/ Did("raise:parse_status"))) =>
        /\ Len(sent) = 1
        /\ StartsWith(sent[1].text, FailurePrefix)
        /\ sent[1].text = FailureText(error)
        /\ ~Did("send_message")
        /\ ~propagating

C5_Witness ==
    /\ CycleEnd /\ Did("raise:parse_status")
    /\ Len(sent) = 1
    /\ StartsWith(sent[1].text, FailurePrefix)
    /\ error.exc = "NoDocumentedKeyInDict"

---------------------------------------------------------------------------
(* C6: once the loop has been entered, requests are issued again and again *)
(* for ever, whatever the cycles' outcomes (given that every call          *)
(* returns): no state of the loop is followed by finitely many requests.   *)
C6_LoopNeverEnds ==
    (<>InLoop) => []<><<GetApiAnswer>>_vars

C6_Witness ==
    /\ CycleEnd /\ Did("except")
    /\ Len(sent) = 1 /\ ~sent[1].delivered

---------------------------------------------------------------------------
(* C7: a failed delivery of the status-change text does not show in the    *)
(* loop.  A cycle that rendered its first record ends, delivered or not,   *)
(* with send_message returned, no exception caught, the checkpoint at the  *)
(* response's current_date and the rendered text as the only send (so no   *)
(* failure notification and no second attempt); and no later cycle sends   *)
(* the text main() still holds from an earlier one: whatever a cycle sends *)
(* is the text rendered from its own response or its own failure text.     *)
C7_DeliveryFailureInvisible ==
    /\ (CycleEnd /\ Did("parse_status")) =>
           /\ Did("send_message")
           /\ error = NoError /\ ~propagating
           /\ timestamp = CurrentDate
           /\ Len(sent) = 1
           /\ ~StartsWith(sent[1].text, FailurePrefix)
    /\ (pc \in {"fetch", "check", "homeworks", "send"}) => sent = <<>>
    /\ \A i \in DOMAIN sent :
           \/ /\ Did("parse_status")
              /\ sent[i].text = parse_status(FirstRecord).val
           \/ /\ error # NoError
              /\ sent[i].text = FailureText(error)

C7_Witness ==
    /\ CycleEnd /\ Did("send_message")
    /\ Len(sent) = 1 /\ ~sent[1].delivered
    /\ timestamp = CurrentDate
    /\ error = NoError

---------------------------------------------------------------------------
(* C8: check_response returns exactly for the mappings that hold both      *)
(* 'homeworks' and 'current_date' with a list under 'homeworks'; every     *)
(* other value makes it raise UndocumentedDataType.  The value under       *)
(* 'current_date' plays no part.                                           *)
Shaped(v) ==
    /\ v.t = "dict"
    /\ "homeworks" \in DOMAIN v.d
    /\ "current_date" \in DOMAIN v.d
    /\ v.d["homeworks"].t = "list"

C8_ShapeCheck ==
    /\ Did("check_response") => Shaped(response_from_api)
    /\ Did("raise:check_response") =>
           (~Shaped(response_from_api) /\ error.exc = "UndocumentedDataType")
    /\ (Did("get_api_answer") /\ pc # "check") =>
           (Did("check_response") \/ Did("raise:check_response"))

C8_Witness ==
    /\ Did("check_response")
    /\ CurrentDate = JStr("soon")
    /\ pc = "homeworks"

---------------------------------------------------------------------------
(* C9 as stated: for a first record with both 'homework_name' and          *)
(* 'status', parse_status returns the template text with the record's name *)
(* and the verdict of its status when the status is a key of               *)
(* HOMEWORK_VERDICTS, and raises NoDocumentedKeyInDict when it is not.     *)
HasBoth(h) == HasKey(h, "homework_name") /\ HasKey(h, "status")

IsVerdictKey(v) == v.t = "str" /\ v.s \in DOMAIN HOMEWORK_VERDICTS

StatusChangeText(name, verdict) ==
    "Izmenilsya status proverki raboty \"" \o name \o "\". " \o verdict

\* parse_status has been called on the first record in this cycle.
Parsed == Did("parse_status") \/ Did("raise:parse_status")

C9_RenderOrContractError ==
    (Parsed /\ HasBoth(FirstRecord)) =>
        IF IsVerdictKey(FirstRecord.d["status"])
        THEN /\ Did("parse_status")
             /\ message = StatusChangeText(
                    FirstRecord.d["homework_name"].s,
                    HOMEWORK_VERDICTS[FirstRecord.d["status"].s])
        ELSE /\ Did("raise:parse_status")
             /\ error.exc = "NoDocumentedKeyInDict"

---------------------------------------------------------------------------
(* C10 as stated: a record without 'status' raises a contract error naming *)
(* 'status', a record without 'homework_name' raises a contract error      *)
(* naming 'homework_name', each whatever the other key (the record with    *)
(* neither key included).                                                  *)
NamesKey(e, key) ==
    /\ e.exc = "NoDocumentedKeyInDict"
    /\ StartsWith(e.msg, "Klyuch " \o key \o " otsutstvuet")

C10_EachMissingKeyNamed ==
    (Parsed /\ FirstRecord.t = "dict") =>
        /\ ~HasKey(FirstRecord, "status") =>
               (Did("raise:parse_status") /\ NamesKey(error, "status"))
        /\ ~HasKey(FirstRecord, "homework_name") =>
               (Did("raise:parse_status") /\ NamesKey(error, "homework_name"))

(* C10 amended: a record without 'status' raises a contract error naming   *)
(* 'status' whether or not 'homework_name' is there; a record with         *)
(* 'status' and without 'homework_name' raises a contract error naming     *)
(* 'homework_name'; for the record with neither key the error names        *)
(* 'status' only.                                                          *)
C10_FirstMissingKeyNamed ==
    (Parsed /\ FirstRecord.t = "dict") =>
        /\ ~HasKey(FirstRecord, "status") =>
               /\ Did("raise:parse_status")
               /\ NamesKey(error, "status")
               /\ ~NamesKey(error, "homework_name")
        /\ (HasKey(FirstRecord, "status")
              /\ ~HasKey(FirstRecord, "homework_name")) =>
               /\ Did("raise:parse_status")
               /\ NamesKey(error, "homework_name")
               /\ ~NamesKey(error, "status")

C10_Witness ==
    /\ Parsed /\ FirstRecord = JDict(EmptyDict)
    /\ NamesKey(error, "status")
    /\ pc = "except"

---------------------------------------------------------------------------
(* C11 as stated: get_api_answer raises RequestException when the request  *)
(* itself fails, raises HTTPError when an answer arrives with a status     *)
(* code other than 200, and returns the decoded body of a 200 answer.      *)
Fetched == Did("get_api_answer") \/ Did("raise:get_api_answer")

C11_DistinctErrorKinds ==
    Fetched =>
        /\ ~http_reply.arrived =>
               (Did("raise:get_api_answer") /\ error.exc = "RequestException")
        /\ (http_reply.arrived /\ http_reply.status_code # HTTP_OK) =>
               (Did("raise:get_api_answer") /\ error.exc = "HTTPError")
        /\ (http_reply.arrived /\ http_reply.status_code = HTTP_OK
              /\ http_reply.decodable) =>
               (Did("get_api_answer") /\ response_from_api = http_reply.body)

---------------------------------------------------------------------------
(* C12: a cycle that ends in the handler leaves the checkpoint as it was   *)
(* when the cycle started, after one attempted failure notification; this  *)
(* includes the cycle whose response was validated and whose first record  *)
(* parse_status refused: that response's current_date is not stored.       *)
Handled == Did("except") \/ Did("raise:except")

C12_HandlerKeepsCheckpoint ==
    /\ (CycleEnd /\ Handled) =>
           /\ timestamp = from_date
           /\ Len(sent) = 1
           /\ sent[1].text = FailureText(error)
    /\ (CycleEnd /\ Did("raise:parse_status")) =>
           (Validated /\ Handled)
    /\ (pc = "except") => timestamp = from_date

C12_Witness ==
    /\ CycleEnd /\ Did("raise:parse_status") /\ Handled
    /\ CurrentDate # from_date
    /\ timestamp = from_date
    /\ Len(sent) = 1

---------------------------------------------------------------------------
(* C13: in a cycle whose validated response has an empty homeworks list    *)
(* nothing is sent, neither a status-change text nor a failure text, and   *)
(* the checkpoint becomes the response's current_date.                     *)
C13_EmptyListSendsNothing ==
    (Validated /\ ~NonEmpty) =>
        /\ sent = <<>>
        /\ pc \in {"homeworks", "advance", "sleep"}
        /\ CycleEnd => (timestamp = CurrentDate /\ Did("no_new_status"))

C13_Witness ==
    /\ CycleEnd /\ Validated /\ ~NonEmpty
    /\ sent = <<>>
    /\ timestamp = CurrentDate /\ timestamp # from_date

---------------------------------------------------------------------------
(* C14: every iteration issues exactly one request and ends with exactly   *)
(* one sleep: a request is only ever issued right after the startup or     *)
(* right after a sleep, every way through the loop body (the handler       *)
(* included) leads to the sleep, and the sleep leads to the next request.  *)
Requests == {i \in DOMAIN steps :
                steps[i] \in {"get_api_answer", "raise:get_api_answer"}}

C14_OneSleepPerCycle ==
    [][/\ (pc' = "fetch") => pc \in {"start", "sleep"}
       /\ (pc = "sleep") => pc' = "fetch"
       /\ (pc = "fetch") => (pc' \in {"check", "except"} /\ Requests' = {1})
       /\ (pc \in {"check", "homeworks", "send", "advance", "except"}) =>
              /\ pc' \in {"homeworks", "send", "advance", "except", "sleep"}
              /\ Requests' = {1}
       /\ (pc \in {"advance", "except"}) => pc' = "sleep"]_vars

C14_Witness ==
    /\ CycleEnd /\ Did("raise:get_api_answer") /\ Handled
    /\ Requests = {1}

---------------------------------------------------------------------------
(* C15: what a cycle sends and where it leaves the checkpoint are given by *)
(* the response's current_date and the first record of its homeworks list  *)
(* alone: the text sent is the rendering of the first record (or the       *)
(* failure text of the error the first record raises), whatever records    *)
(* follow it, and no later record is rendered or sent.                     *)
C15_FirstRecordDecides ==
    (CycleEnd /\ Validated /\ NonEmpty) =>
        LET r == parse_status(FirstRecord)
        IN  /\ Len(sent) = 1
            /\ IF r.exc = "none"
               THEN /\ sent[1].text = r.val
                    /\ timestamp = CurrentDate
               ELSE /\ sent[1].text = FailureText(r)
                    /\ timestamp = from_date

C15_Witness ==
    /\ CycleEnd /\ Validated
    /\ Len(response_from_api.d["homeworks"].l) = 2
    /\ response_from_api.d["homeworks"].l[2] = JDict(EmptyDict)
    /\ Did("parse_status")
    /\ sent[1].text = parse_status(FirstRecord).val

---------------------------------------------------------------------------
(* C16: the from_date of every request is the checkpoint, which is the     *)
(* current_date of the last earlier cycle that ended outside the handler,  *)
(* or the startup time when there is none; the loop never stores the       *)
(* client's clock.                                                         *)
C16_FromDateIsLastCompleted ==
    /\ (pc = "fetch") => timestamp = last_completed
    /\ (InLoop /\ pc # "fetch") => from_date = last_completed
    /\ (CycleEnd /\ ~Handled) => timestamp = CurrentDate

C16_Witness ==
    /\ pc = "check"
    /\ from_date = last_completed
    /\ from_date # JInt(now)
    /\ from_date.t = "int"

---------------------------------------------------------------------------
(* C17 as stated: the checkpoint passed to get_api_answer is always an     *)
(* integer.                                                                *)
C17_FromDateIsInteger ==
    Fetched => from_date.t = "int"

=============================================================================
